---------------------------- MODULE Spec2Model ----------------------------
(***************************************************************************)
(* Read-access filtering proxy over a genealogical store                   *)
(* (gprime/proxy/proxybase.py: ProxyCursor, ProxyMap, ProxyDbBase).        *)
(*                                                                         *)
(* Objects are numbered: 0 is the base (innermost, non-proxy) store and    *)
(* i in 1..Len(proxies) is the i-th ProxyDbBase instance constructed.      *)
(* The ten per-kind method families of ProxyDbBase are one operator each,  *)
(* parameterised by the kind k.  The families never read another kind's    *)
(* table, so a behaviour populates the table of one kind, `kind`, drawn by *)
(* Init from all ten.                                                      *)
(*                                                                         *)
(* Python values: a str handle "h" is Str("h"), the bytes object b"h" is   *)
(* Bytes("h"); None is the record None; a raised exception is a record     *)
(* whose t field names the exception class.                                *)
(***************************************************************************)
EXTENDS Integers, Sequences, FiniteSets, TLC

(* ---------------------------- bounds ----------------------------------- *)
MaxDepth == 2            \* proxies stacked on the base store
CursorDepth == 1         \* the same, where a cursor is followed step by step
StackDepth == 3          \* the same, where only the references are followed

(* ---------------------------- value universe --------------------------- *)
Kinds == {"person", "family", "event", "source", "citation",
          "place", "media", "repository", "note", "tag"}
HandleIds == {"h1", "h2"}
Gids == {"g1", "g2"}

None == [t |-> "None"]
AttributeError == [t |-> "AttributeError"]
TypeError == [t |-> "TypeError"]
IndexError == [t |-> "IndexError"]
KeyError == [t |-> "KeyError"]

Str(s) == [t |-> "str", v |-> s]
Bytes(s) == [t |-> "bytes", v |-> s]

\* bytes(x, "utf-8"): encodes a str; any other argument raises TypeError
py_bytes(x) == IF x.t = "str" THEN Bytes(x.v) ELSE TypeError

\* str(x, "utf-8"): decodes a bytes object; a str argument raises TypeError
py_str(x) == IF x.t = "bytes" THEN Str(x.v) ELSE TypeError

\* truth value of a handle, as filter(None, ...) tests it
Truthy(x) == x.v # ""

\* an entity of the object model: handle, external id (the name, for a
\* Tag) and the flag its include() method computes visibility from
GidOf(h) == IF h = "h1" THEN "g1" ELSE "g2"
Obj(k, h, p) ==
    [t |-> "obj", class |-> k, handle |-> Str(h), gid |-> GidOf(h), private |-> p]

\* obj.to_struct(): the raw record
to_struct(obj) ==
    [t |-> "struct", _class |-> obj.class, handle |-> obj.handle.v,
     gid |-> obj.gid, private |-> obj.private]

\* the inclusion predicates a concrete proxy can install as include_<kind>
NoPred == [t |-> "None"]
PrivatePred == [t |-> "private"]
PlistPred(S) == [t |-> "plist", plist |-> S]
Predicates == {NoPred, PrivatePred, PlistPred({"h1"})}

\* attribute names, split at "_" as __getattr__ splits them
GetUnfilteredName(k) == <<"get", "unfiltered", k, "from", "handle">>
WriteNames(k) == {<<"add", k>>, <<"commit", k>>, <<"remove", k>>}
ReadonlyName == <<"readonly">>

VARIABLES
    kind,      \* the kind whose table the behaviour populates
    table,     \* base store: the entities of `kind`, in iteration order
    isopen,    \* base store: what is_open() reports
    proxies,   \* the ProxyDbBase instances, in order of construction
    last,      \* the proxy call that has just returned
    cursor,    \* the ProxyCursor a caller holds, and its generator
    bookmarks  \* base store: the contents of its bookmark list for `kind`

vars == <<kind, table, isopen, proxies, last, cursor, bookmarks>>

NoCall == [op |-> "none", proxy |-> 0, arg |-> None, result |-> None]

Proxies == 1 .. Len(proxies)
Idle == last = NoCall

(* ---------------------------- base store ------------------------------- *)
TableOf(k) == IF k = kind THEN table ELSE <<>>

Map(f(_), s) == [n \in 1 .. Len(s) |-> f(s[n])]
Range(s) == {s[n] : n \in 1 .. Len(s)}

\* first element of s satisfying Test, or None
First(s, Test(_)) ==
    LET hits == SelectSeq(s, Test) IN IF hits = <<>> THEN None ELSE hits[1]

base_get_from_handle(k, handle) ==
    First(TableOf(k), LAMBDA o : o.handle = handle)

base_get_from_gid(k, val) ==
    First(TableOf(k), LAMBDA o : o.gid = val)

base_iter_handles(k) == Map(LAMBDA o : o.handle, TableOf(k))

base_iter_objects(k) == TableOf(k)

\* the order of the store's sorted index (ORDER BY): stable, ascending gid
SortByGid(s) ==
    SelectSeq(s, LAMBDA o : o.gid = "g1") \o SelectSeq(s, LAMBDA o : o.gid # "g1")

\* the base store's handle list is a list of bytes objects
base_get_handles(k, sort_handles) ==
    Map(LAMBDA o : py_bytes(o.handle),
        IF sort_handles THEN SortByGid(TableOf(k)) ELSE TableOf(k))

\* names the writable-store contract (DbWriteBase) defines as functions
DbWriteBaseDict == UNION {WriteNames(k) : k \in Kinds}

(* ---------------------------- ProxyDbBase ------------------------------ *)
\* variant: basedb is the directly wrapped store, proxy or not
FindBase_wrapped(ps, j) == j

\* variant: the walk stops after one step (if instead of while)
FindBase_one_step(ps, j) == IF j = 0 THEN 0 ELSE ps[j].db

\* ProxyDbBase.__init__: the walk down the db references to the base store
RECURSIVE FindBase(_, _)
FindBase(ps, j) == IF j = 0 THEN 0 ELSE FindBase(ps, ps[j].db)

\* ProxyDbBase.is_open
RECURSIVE is_open(_)
is_open(i) == IF proxies[i].db = 0 THEN isopen ELSE is_open(proxies[i].db)

\* self.include_<kind>(handle) for an installed predicate
Include(i, k, handle) ==
    LET pred == proxies[i].include IN
    IF pred.t = "private"
    THEN LET obj == base_get_from_handle(k, handle)
         IN obj # None /\ ~obj.private
    ELSE handle.v \in pred.plist

\* variant: the predicate is not applied to the wrapped store's handles
FilterHandles_unfiltered(i, k, handles) == SelectSeq(handles, Truthy)

\* filter(self.include_<kind>, handles)
FilterHandles(i, k, handles) ==
    IF proxies[i].include = NoPred
    THEN SelectSeq(handles, Truthy)
    ELSE SelectSeq(handles, LAMBDA h : Include(i, k, h))

\* ProxyDbBase.iter_<kind>_handles
RECURSIVE iter_handles(_, _)
iter_handles(i, k) ==
    FilterHandles(i, k, IF proxies[i].db = 0 THEN base_iter_handles(k)
                        ELSE iter_handles(proxies[i].db, k))

RECURSIVE iter_objects(_, _)

\* variant: the selector is not applied to the wrapped store's entities
iter_objects_unfiltered(i, k) ==
    IF proxies[i].db = 0 THEN base_iter_objects(k)
    ELSE iter_objects(proxies[i].db, k)

\* ProxyDbBase.__iter_object (order_by not given)
iter_objects(i, k) ==
    SelectSeq(IF proxies[i].db = 0 THEN base_iter_objects(k)
              ELSE iter_objects(proxies[i].db, k),
              LAMBDA obj : proxies[i].include = NoPred \/ Include(i, k, obj.handle))

\* the order_by arguments: a list of (field, direction) pairs, here one
\* pair on the external id, or the empty list
OrderBys == {[t |-> "list", v |-> <<>>],
             [t |-> "list", v |-> <<<<"gid", "ASC">>>>],
             [t |-> "list", v |-> <<<<"gid", "DESC">>>>]}

\* sort_objects(objects, order_by, db): a stable sort by the field
sort_objects(objects, order_by) ==
    IF order_by.v[1][2] = "ASC"
    THEN SortByGid(objects)
    ELSE SelectSeq(objects, LAMBDA o : o.gid # "g1")
             \o SelectSeq(objects, LAMBDA o : o.gid = "g1")

\* ProxyDbBase.__iter_object with order_by: None and the empty list are
\* false
iter_objects_ordered(i, k, order_by) ==
    IF order_by # None /\ order_by.v # <<>>
    THEN sort_objects(iter_objects(i, k), order_by)
    ELSE iter_objects(i, k)

\* variant: the looked-up entity is returned without asking the predicate
gfilter_unfiltered(i, k, obj) == obj

\* ProxyDbBase.gfilter
gfilter(i, k, obj) ==
    IF proxies[i].include # NoPred /\ obj # None
    THEN IF Include(i, k, obj.handle) THEN obj ELSE None
    ELSE obj

\* ProxyDbBase.get_<kind>_from_handle
RECURSIVE get_from_handle(_, _, _)
get_from_handle(i, k, handle) ==
    gfilter(i, k, IF proxies[i].db = 0 THEN base_get_from_handle(k, handle)
                  ELSE get_from_handle(proxies[i].db, k, handle))

\* ProxyDbBase.get_<kind>_from_gid; for a Tag, get_tag_from_name
RECURSIVE get_from_gid(_, _, _)
get_from_gid(i, k, val) ==
    gfilter(i, k, IF proxies[i].db = 0 THEN base_get_from_gid(k, val)
                  ELSE get_from_gid(proxies[i].db, k, val))

\* ProxyDbBase.has_<kind>_handle
has_handle(i, k, handle) ==
    gfilter(i, k, IF proxies[i].db = 0 THEN base_get_from_handle(k, handle)
                  ELSE get_from_handle(proxies[i].db, k, handle)) # None

\* variant: only the proxy's own predicate is asked, not the stack below it
find_initial_person_own(i, initial) ==
    IF initial # None /\ (proxies[i].include = NoPred
                          \/ Include(i, "person", initial.handle))
    THEN initial ELSE None

\* ProxyDbBase.find_initial_person; initial is what the base store's
\* find_initial_person() answers
RECURSIVE find_initial_person(_, _)
find_initial_person(i, initial) ==
    LET person == IF proxies[i].basedb = 0 THEN initial
                  ELSE find_initial_person(proxies[i].basedb, initial)
    IN IF person # None /\ has_handle(i, "person", person.handle)
       THEN person ELSE None

\* ProxyDbBase.get_default_person; default is what the base store's
\* get_default_person() answers
RECURSIVE get_default_person(_, _)
get_default_person(i, default) ==
    IF proxies[i].db = 0 THEN default
    ELSE get_default_person(proxies[i].db, default)

\* ProxyDbBase.get_default_handle; the base store answers the handle of
\* its default person
RECURSIVE get_default_handle(_, _)
get_default_handle(i, default) ==
    IF proxies[i].db = 0
    THEN IF default = None THEN None ELSE default.handle
    ELSE get_default_handle(proxies[i].db, default)

\* variant: the handle list is computed without asking is_open()
get_handles_unguarded(i, k, sort_handles) ==
    IF k \in {"person", "family"}
    THEN LET proxied == Range(iter_handles(i, k))
             all == base_get_handles(k, sort_handles)
         IN SelectSeq(all, LAMBDA hdl : py_str(hdl) \in proxied)
    ELSE iter_handles(i, k)

\* variant: the Person and Family list is the proxy's own enumeration,
\* encoded, whatever order the base store's list has
get_handles_unsorted(i, k, sort_handles) ==
    IF is_open(i)
    THEN IF k \in {"person", "family"}
         THEN Map(py_bytes, iter_handles(i, k))
         ELSE iter_handles(i, k)
    ELSE <<>>

\* ProxyDbBase.get_<kind>_handles
get_handles(i, k, sort_handles) ==
    IF is_open(i)
    THEN IF k \in {"person", "family"}
         THEN LET proxied == Range(iter_handles(i, k))
                  all == base_get_handles(k, sort_handles)
              IN SelectSeq(all, LAMBDA hdl : py_str(hdl) \in proxied)
         ELSE iter_handles(i, k)
    ELSE <<>>

\* variant: the count is the wrapped store's, not the filtered list's length
get_number_of_unfiltered(i, k) == Len(TableOf(k))

\* ProxyDbBase.get_number_of_<kinds>
get_number_of(i, k) == Len(get_handles(i, k, FALSE))

\* variant: an excluded entity is serialized as a null-valued record
get_raw_data_null(i, k, handle) ==
    LET obj == get_from_handle(i, k, handle)
    IN IF obj = None
       THEN [t |-> "struct", _class |-> k, handle |-> "", gid |-> "", private |-> FALSE]
       ELSE to_struct(obj)

\* ProxyDbBase.get_raw_<kind>_data: None has no to_struct attribute
get_raw_data(i, k, handle) ==
    LET obj == get_from_handle(i, k, handle)
    IN IF obj = None THEN AttributeError ELSE to_struct(obj)


\* a bound method: the object it is bound to and its name
Method(j, name) == [t |-> "method", self |-> j, name |-> name]

\* an attribute that is no method: the object that has it and its name
Attr(j, name) == [t |-> "attr", self |-> j, name |-> name]

\* method names the base store answers to: its lookups, its write
\* operations, and a read operation ProxyDbBase does not define
BaseDict ==
    DbWriteBaseDict \cup {<<"get", k, "from", "handle">> : k \in Kinds}
        \cup {<<"get", "summary">>}

\* the base store's map views, one per kind
BaseAttrs == {<<k, "map">> : k \in Kinds}

\* the kinds ProxyDbBase.__init__ makes a ProxyMap for, and the names of
\* these instance attributes
MapKinds == {"person", "family", "event", "place", "source",
             "repository", "media", "note"}
ProxyAttrs == {<<k, "map">> : k \in MapKinds}

\* names ProxyDbBase defines itself, found without __getattr__
ProxyDbBaseDict == {<<"get", k, "from", "handle">> : k \in Kinds}

\* attribute lookup on the base store: its methods, its map views, and
\* its readonly flag, false for a store that can be written
base_getattr(name) ==
    IF name \in BaseDict THEN Method(0, name)
    ELSE IF name \in BaseAttrs THEN Attr(0, name)
    ELSE IF name = ReadonlyName THEN [t |-> "bool", v |-> FALSE]
    ELSE AttributeError

RECURSIVE getattr(_, _)

\* variant: a name __getattr__ does not know raises AttributeError
getattr_unforwarded(j, name) ==
    IF j = 0
    THEN base_getattr(name)
    ELSE IF \E a \in proxies[j].attrs : a[1] = name
    THEN (CHOOSE a \in proxies[j].attrs : a[1] = name)[2]
    ELSE IF name \in ProxyDbBaseDict
    THEN Method(j, name)
    ELSE IF name \in ProxyAttrs
    THEN Attr(j, name)
    ELSE IF name = ReadonlyName
    THEN [t |-> "bool", v |-> TRUE]
    ELSE IF Len(name) >= 2 /\ SubSeq(name, 1, 2) = <<"get", "unfiltered">>
    THEN IF Len(name) < 3 THEN IndexError
         ELSE getattr(proxies[j].basedb, <<"get", name[3], "from", "handle">>)
    ELSE AttributeError

\* variant: get_unfiltered binds to the wrapped store, not to the base store
getattr_wrapped(j, name) ==
    IF j = 0
    THEN base_getattr(name)
    ELSE IF \E a \in proxies[j].attrs : a[1] = name
    THEN (CHOOSE a \in proxies[j].attrs : a[1] = name)[2]
    ELSE IF name \in ProxyDbBaseDict
    THEN Method(j, name)
    ELSE IF name \in ProxyAttrs
    THEN Attr(j, name)
    ELSE IF name = ReadonlyName
    THEN [t |-> "bool", v |-> TRUE]
    ELSE IF Len(name) >= 2 /\ SubSeq(name, 1, 2) = <<"get", "unfiltered">>
    THEN IF Len(name) < 3 THEN IndexError
         ELSE getattr(proxies[j].db, <<"get", name[3], "from", "handle">>)
    ELSE IF name \in DbWriteBaseDict
    THEN AttributeError
    ELSE getattr(proxies[j].db, name)

\* variant: write operations are forwarded like any other unknown name
getattr_forwarding(j, name) ==
    IF j = 0
    THEN base_getattr(name)
    ELSE IF \E a \in proxies[j].attrs : a[1] = name
    THEN (CHOOSE a \in proxies[j].attrs : a[1] = name)[2]
    ELSE IF name \in ProxyDbBaseDict
    THEN Method(j, name)
    ELSE IF name \in ProxyAttrs
    THEN Attr(j, name)
    ELSE IF name = ReadonlyName
    THEN [t |-> "bool", v |-> TRUE]
    ELSE IF Len(name) >= 2 /\ SubSeq(name, 1, 2) = <<"get", "unfiltered">>
    THEN IF Len(name) < 3 THEN IndexError
         ELSE getattr(proxies[j].basedb, <<"get", name[3], "from", "handle">>)
    ELSE getattr(proxies[j].db, name)

\* attribute lookup on object j: the base store's own attributes; on a
\* proxy the instance attributes, then the methods ProxyDbBase defines,
\* then ProxyDbBase.__getattr__
getattr(j, name) ==
    IF j = 0
    THEN base_getattr(name)
    ELSE IF \E a \in proxies[j].attrs : a[1] = name
    THEN (CHOOSE a \in proxies[j].attrs : a[1] = name)[2]
    ELSE IF name \in ProxyDbBaseDict
    THEN Method(j, name)
    ELSE IF name \in ProxyAttrs
    THEN Attr(j, name)
    ELSE IF name = ReadonlyName
    THEN [t |-> "bool", v |-> TRUE]
    ELSE IF Len(name) >= 2 /\ SubSeq(name, 1, 2) = <<"get", "unfiltered">>
    THEN IF Len(name) < 3 THEN IndexError
         ELSE getattr(proxies[j].basedb, <<"get", name[3], "from", "handle">>)
    ELSE IF name \in DbWriteBaseDict
    THEN AttributeError
    ELSE getattr(proxies[j].db, name)

\* variant: the accessor is stored under the name of the filtered lookup
Setattr_shadowing(j, name, attr) ==
    IF attr.t = "method" /\ Len(name) >= 3
    THEN [proxies EXCEPT
              ![j].attrs = @ \cup {<<<<"get", name[3], "from", "handle">>, attr>>}]
    ELSE proxies

\* the setattr(self, name, attr) of a get_unfiltered lookup
Setattr(j, name, attr) ==
    IF /\ attr.t = "method"
       /\ Len(name) >= 3
       /\ SubSeq(name, 1, 2) = <<"get", "unfiltered">>
       /\ name \notin ProxyDbBaseDict
    THEN [proxies EXCEPT ![j].attrs = @ \cup {<<name, attr>>}]
    ELSE proxies

\* calling a lookup method with a handle
Invoke(m, handle) ==
    IF m.self = 0 THEN base_get_from_handle(m.name[2], handle)
    ELSE get_from_handle(m.self, m.name[2], handle)

(* ---------------------------- ProxyMap --------------------------------- *)
\* a Python list as a value that can be compared with an exception
PyList(s) == [t |-> "list", v |-> s]

\* [bytes(key, "utf-8") for key in keys]: the first key that cannot be
\* encoded raises
EncodeAll(keys) ==
    IF \E n \in 1 .. Len(keys) : py_bytes(keys[n]) = TypeError
    THEN TypeError
    ELSE PyList(Map(py_bytes, keys))

\* ProxyMap.keys of proxy i's <k>_map
ProxyMap_keys(i, k) == EncodeAll(get_handles(i, k, FALSE))

\* ProxyMap.__getitem__ of proxy i's <k>_map
ProxyMap_getitem(i, k, handle) == get_raw_data(i, k, handle)

\* keys() of a map view m, the base store's or a proxy's
keys(m) ==
    IF m.self = 0 THEN PyList(base_get_handles(m.name[1], FALSE))
    ELSE ProxyMap_keys(m.self, m.name[1])

\* m[handle] of a map view m, the base store's or a proxy's
getitem(m, handle) ==
    IF m.self = 0
    THEN LET obj == base_get_from_handle(m.name[1], handle)
         IN IF obj = None THEN KeyError ELSE to_struct(obj)
    ELSE ProxyMap_getitem(m.self, m.name[1], handle)

(* ---------------------------- table registry --------------------------- *)
\* the keys of ProxyDbBase.__tables, in the order __init__ inserts them
TableKeys == <<"Person", "Family", "Source", "Citation", "Event",
               "Media", "Place", "Repository", "Note", "Tag">>

\* the kind a key of __tables describes
KindOf(key) ==
    CASE key = "Person" -> "person" [] key = "Family" -> "family"
      [] key = "Source" -> "source" [] key = "Citation" -> "citation"
      [] key = "Event" -> "event" [] key = "Media" -> "media"
      [] key = "Place" -> "place" [] key = "Repository" -> "repository"
      [] key = "Note" -> "note" [] key = "Tag" -> "tag"

\* variant: the descriptor's functions are the wrapped store's
Descriptor_wrapped(i, k) ==
    LET j == proxies[i].db IN
    [handle_func |-> Method(j, <<"get", k, "from", "handle">>),
     gid_func |-> IF k = "tag" THEN None
                  ELSE Method(j, <<"get", k, "from", "gid">>),
     class_func |-> [t |-> "class", name |-> k],
     cursor_func |-> Method(j, <<"get", k, "cursor">>),
     handles_func |-> Method(j, <<"get", k, "handles">>),
     iter_func |-> Method(j, <<"iter", k>>),
     count_func |-> Method(j, <<"get", "number", "of", k>>)]

\* one entry of ProxyDbBase.__tables: bound methods of the proxy itself
Descriptor(i, k) ==
    [handle_func |-> Method(i, <<"get", k, "from", "handle">>),
     gid_func |-> IF k = "tag" THEN None
                  ELSE Method(i, <<"get", k, "from", "gid">>),
     class_func |-> [t |-> "class", name |-> k],
     cursor_func |-> Method(i, <<"get", k, "cursor">>),
     handles_func |-> Method(i, <<"get", k, "handles">>),
     iter_func |-> Method(i, <<"iter", k>>),
     count_func |-> Method(i, <<"get", "number", "of", k>>)]

\* ProxyDbBase.get_table_func(table, func); each argument is None or a
\* str.  A func that is no key of the descriptor goes to the superclass
\* (DbReadBase), whose answer stands as a value of its own.
get_table_func(i, tablename, func) ==
    IF tablename = None
    THEN TableKeys
    ELSE IF tablename.v \notin Range(TableKeys)
    THEN KeyError
    ELSE IF func = None
    THEN Descriptor(i, KindOf(tablename.v))
    ELSE IF func.v \in DOMAIN Descriptor(i, KindOf(tablename.v))
    THEN Descriptor(i, KindOf(tablename.v))[func.v]
    ELSE [t |-> "super", table |-> tablename.v, func |-> func.v]

(* ---------------------------- bookmarks -------------------------------- *)
\* A bookmark list is an object: StoreList is the reference to the list
\* object the base store keeps for `kind` (its contents are `bookmarks`);
\* ListCopy(v) is another list object, with contents v.
StoreList == [t |-> "ref"]
ListCopy(v) == [t |-> "list", v |-> v]
Contents(x) == IF x.t = "ref" THEN bookmarks ELSE x.v

\* the kinds with a bookmark list: ProxyDbBase.__init__ copies no
\* tag_bookmarks
BookmarkKinds == Kinds \ {"tag"}

\* variant: __init__ keeps a copy of the list, list(db.<kind>_bookmarks)
db_bookmarks_copy(ps, db) == ListCopy(bookmarks)

\* db.<kind>_bookmarks, as ProxyDbBase.__init__ reads it from the store or
\* the proxy it wraps
db_bookmarks(ps, db) == IF db = 0 THEN StoreList ELSE ps[db].bookmarks

\* ProxyDbBase.get_<kind>_bookmarks: return self.<kind>_bookmarks
get_bookmarks(i) == proxies[i].bookmarks

(* ---------------------------- ProxyCursor ------------------------------ *)
\* The caller holds at most one ProxyCursor and at most one generator made
\* by its __iter__.  scope is the place of the cursor in a with statement,
\* gen the place of the generator: "created" before its first pull (the
\* body has not started), "suspended" at its yield, "done" after the loop
\* ended, "raised" after an exception left the body.  released counts the
\* releases of a store resource the cursor has performed.
NoCursor ==
    [scope |-> "none", owner |-> 0, exc |-> FALSE, released |-> 0,
     gen |-> "none", handles |-> <<>>, at |-> 0, yielded |-> <<>>,
     error |-> None]

\* ProxyDbBase.get_<kind>_cursor: ProxyCursor(self.get_raw_<kind>_data,
\* self.get_<kind>_handles)
get_cursor(i) == [NoCursor EXCEPT !.scope = "new", !.owner = i]

\* ProxyCursor.__enter__: returns self
ProxyCursor_enter(c) == [c EXCEPT !.scope = "entered"]

\* ProxyCursor.__exit__: pass; exc tells whether an exception left the body
ProxyCursor_exit(c, exc) == [c EXCEPT !.scope = "exited", !.exc = exc]

\* ProxyCursor.__iter__: a new generator; its body runs at the first pull
ProxyCursor_iter(c) ==
    [c EXCEPT !.gen = "created", !.handles = <<>>, !.at = 0,
              !.yielded = <<>>, !.error = None]

\* variant: the record of a handle that is no longer there is a null-valued
\* record, and the loop goes on
LoopStep_unchecked(c, hs) ==
    IF c.at = Len(hs)
    THEN [c EXCEPT !.gen = "done", !.handles = hs]
    ELSE LET handle == hs[c.at + 1]
             key == py_bytes(handle)
             raw == IF key = TypeError THEN TypeError
                    ELSE get_raw_data_null(c.owner, kind, handle)
         IN IF raw.t # "struct"
            THEN [c EXCEPT !.gen = "raised", !.handles = hs, !.error = raw]
            ELSE [c EXCEPT !.gen = "suspended", !.handles = hs,
                           !.at = @ + 1,
                           !.yielded = Append(@, <<key, raw>>)]

\* one turn of the loop of ProxyCursor.__iter__ over the list hs
LoopStep(c, hs) ==
    IF c.at = Len(hs)
    THEN [c EXCEPT !.gen = "done", !.handles = hs]
    ELSE LET handle == hs[c.at + 1]
             key == py_bytes(handle)
             raw == IF key = TypeError THEN TypeError
                    ELSE get_raw_data(c.owner, kind, handle)
         IN IF raw.t # "struct"
            THEN [c EXCEPT !.gen = "raised", !.handles = hs, !.error = raw]
            ELSE [c EXCEPT !.gen = "suspended", !.handles = hs,
                           !.at = @ + 1,
                           !.yielded = Append(@, <<key, raw>>)]

\* next(generator): the first pull calls self.get_handles()
ProxyCursor_next(c) ==
    LoopStep(c, IF c.gen = "created"
                THEN get_handles(c.owner, kind, FALSE)
                ELSE c.handles)

\* list(cursor): a fresh iteration pulled until it ends or raises
RECURSIVE Drain(_)
Drain(c) ==
    IF c.gen \in {"done", "raised"} THEN c ELSE Drain(ProxyCursor_next(c))

list_cursor(i) ==
    LET c == Drain(ProxyCursor_iter(get_cursor(i)))
    IN IF c.gen = "raised" THEN c.error ELSE PyList(c.yielded)

(* ---------------------------- actions ---------------------------------- *)
Init ==
    /\ kind \in Kinds
    /\ table = <<>>
    /\ isopen = TRUE
    /\ proxies = <<>>
    /\ last = NoCall
    /\ cursor = NoCursor
    /\ bookmarks = <<>>

\* ProxyDbBase.__init__(db) on the newest object, by a subclass whose
\* include_<kind> is pred
Construct(pred) ==
    /\ Idle
    /\ Len(proxies) < MaxDepth
    /\ LET db == Len(proxies)
           new == [db |-> db, basedb |-> FindBase(proxies, db),
                   bookmarks |-> db_bookmarks(proxies, db),
                   include |-> pred, attrs |-> {}]
       IN proxies' = Append(proxies, new)
    /\ last' = NoCall
    /\ UNCHANGED <<kind, cursor, bookmarks, table, isopen>>

\* the writable base store: add_<kind>, commit_<kind>, remove_<kind>
BaseWrite(name, obj) ==
    LET at == {n \in 1 .. Len(table) : table[n].handle = obj.handle} IN
    IF name[1] = "add" /\ at = {} /\ name[2] = kind
    THEN Append(table, obj)
    ELSE IF name[1] = "commit" /\ at # {} /\ name[2] = kind
    THEN [n \in 1 .. Len(table) |-> IF n \in at THEN obj ELSE table[n]]
    ELSE IF name[1] = "remove" /\ name[2] = kind
    THEN SelectSeq(table, LAMBDA o : o.handle # obj.handle)
    ELSE table

Write(name, h, p) ==
    /\ Idle
    /\ isopen
    /\ name \in WriteNames(kind)
    /\ table' = BaseWrite(name, Obj(kind, h, p))
    /\ table' # table
    /\ last' = NoCall
    /\ UNCHANGED <<kind, cursor, bookmarks, isopen, proxies>>

\* the base store is opened again
Load ==
    /\ Idle
    /\ ~isopen
    /\ isopen' = TRUE
    /\ last' = NoCall
    /\ UNCHANGED <<kind, cursor, bookmarks, table, proxies>>

\* a call is made while no other call is in progress (single-threaded,
\* synchronous) and leaves its return value in `last`
Returned(op, i, arg, result) ==
    /\ Idle
    /\ last' = [op |-> op, proxy |-> i, arg |-> arg, result |-> result]

\* the caller takes the return value
Return ==
    /\ ~Idle
    /\ last' = NoCall
    /\ UNCHANGED <<kind, cursor, bookmarks, table, isopen, proxies>>

\* ProxyDbBase.close: closes the base store
Close(i) ==
    /\ isopen' = (IF proxies[i].basedb = 0 THEN FALSE ELSE isopen)
    /\ Returned("close", i, None, None)
    /\ UNCHANGED <<kind, cursor, bookmarks, table, proxies>>

IsOpen(i) ==
    /\ Returned("is_open", i, None, is_open(i))
    /\ UNCHANGED <<kind, cursor, bookmarks, table, isopen, proxies>>

GetFromHandle(i, h) ==
    /\ Returned("get_from_handle", i, Str(h), get_from_handle(i, kind, Str(h)))
    /\ UNCHANGED <<kind, cursor, bookmarks, table, isopen, proxies>>

GetFromGid(i, g) ==
    /\ Returned("get_from_gid", i, g, get_from_gid(i, kind, g))
    /\ UNCHANGED <<kind, cursor, bookmarks, table, isopen, proxies>>

HasHandle(i, h) ==
    /\ Returned("has_handle", i, Str(h), has_handle(i, kind, Str(h)))
    /\ UNCHANGED <<kind, cursor, bookmarks, table, isopen, proxies>>

GetHandles(i, sort_handles) ==
    /\ Returned("get_handles", i, sort_handles, get_handles(i, kind, sort_handles))
    /\ UNCHANGED <<kind, cursor, bookmarks, table, isopen, proxies>>

IterHandles(i) ==
    /\ Returned("iter_handles", i, None, iter_handles(i, kind))
    /\ UNCHANGED <<kind, cursor, bookmarks, table, isopen, proxies>>

IterObjects(i) ==
    /\ Returned("iter_objects", i, None, iter_objects(i, kind))
    /\ UNCHANGED <<kind, cursor, bookmarks, table, isopen, proxies>>

IterObjectsOrdered(i, order_by) ==
    /\ Returned("iter_objects", i, order_by, iter_objects_ordered(i, kind, order_by))
    /\ UNCHANGED <<kind, cursor, bookmarks, table, isopen, proxies>>

GetNumberOf(i) ==
    /\ Returned("get_number_of", i, None, get_number_of(i, kind))
    /\ UNCHANGED <<kind, cursor, bookmarks, table, isopen, proxies>>

GetRawData(i, h) ==
    /\ Returned("get_raw_data", i, Str(h), get_raw_data(i, kind, Str(h)))
    /\ UNCHANGED <<kind, cursor, bookmarks, table, isopen, proxies>>

\* proxy.get_table_func(table, func)
GetTableFunc(i, tablename, func) ==
    /\ Returned("get_table_func", i, <<tablename, func>>,
                get_table_func(i, tablename, func))
    /\ UNCHANGED <<kind, cursor, bookmarks, table, isopen, proxies>>

\* list(proxy.get_<kind>_cursor())
ReadCursor(i) ==
    /\ Returned("list_cursor", i, None, list_cursor(i))
    /\ UNCHANGED <<kind, cursor, bookmarks, table, isopen, proxies>>

\* getattr(proxy, name)
GetAttr(i, name) ==
    /\ Returned("getattr", i, name, getattr(i, name))
    /\ UNCHANGED <<kind, cursor, bookmarks, table, isopen, proxies>>

\* proxy.<kind>_map.keys(): the attribute lookup, then the call
MapKeys(i) ==
    LET m == getattr(i, <<kind, "map">>) IN
    /\ Returned("map_keys", i, None, IF m.t = "attr" THEN keys(m) ELSE m)
    /\ UNCHANGED <<kind, cursor, bookmarks, table, isopen, proxies>>

\* proxy.<kind>_map[handle]: the attribute lookup, then the call
MapGet(i, h) ==
    LET m == getattr(i, <<kind, "map">>) IN
    /\ Returned("map_getitem", i, Str(h),
                IF m.t = "attr" THEN getitem(m, Str(h)) ELSE m)
    /\ UNCHANGED <<kind, cursor, bookmarks, table, isopen, proxies>>

\* proxy.get_unfiltered_<kind>...(handle): the attribute lookup, then the call
GetUnfiltered(i, name, h) ==
    LET attr == getattr(i, name) IN
    /\ Idle
    /\ proxies' = Setattr(i, name, attr)
    /\ last' = [op |-> "get_unfiltered", proxy |-> i, arg |-> Str(h),
                result |-> Invoke(attr, Str(h)),
                cached |-> (\E a \in proxies[i].attrs : a[1] = name)]
    /\ UNCHANGED <<kind, cursor, bookmarks, table, isopen>>

\* proxy.<write operation>(obj): the attribute lookup, then the call when
\* the lookup returned a method
WriteAttempt(i, name, h) ==
    LET attr == getattr(i, name) IN
    /\ Returned("write", i, name, attr)
    /\ table' = IF attr.t = "method" THEN BaseWrite(name, Obj(kind, h, TRUE))
                ELSE table
    /\ UNCHANGED <<kind, cursor, bookmarks, isopen, proxies>>

\* names ProxyDbBase does not define: a read operation and two map views
\* of the store, a name nothing has, and readonly
OtherNames == {<<"get", "summary">>, <<"citation", "map">>, <<"tag", "map">>,
               <<"get", "nothing">>, ReadonlyName}

\* the arguments get_table_func is called with: none, the key of the
\* populated kind, a name that is no key; none, a key of the descriptor, a
\* name that is no key
TableArgs == {None, Str(TableKeys[CHOOSE n \in 1 .. Len(TableKeys) :
                                     KindOf(TableKeys[n]) = kind]), Str(kind)}
FuncArgs == {None, Str("gid_func"), Str("sort_func")}

\* callers hold the outermost proxy; the proxies below it are reached
\* through its db and basedb references
Callers == {Len(proxies)} \ {0}

Next ==
    \/ \E pred \in Predicates : Construct(pred)
    \/ \E name \in WriteNames(kind), h \in HandleIds, p \in BOOLEAN :
           Write(name, h, p)
    \/ Load
    \/ \E i \in Proxies : Close(i)
    \/ \E i \in Proxies : IsOpen(i)
    \/ \E i \in Callers, h \in HandleIds : GetFromHandle(i, h)
    \/ \E i \in Callers, g \in Gids : GetFromGid(i, g)
    \/ \E i \in Callers, h \in HandleIds : HasHandle(i, h)
    \/ \E i \in Callers, s \in BOOLEAN : GetHandles(i, s)
    \/ \E i \in Callers : IterHandles(i)
    \/ \E i \in Callers : IterObjects(i)
    \/ \E i \in Callers : GetNumberOf(i)
    \/ \E i \in Callers, h \in HandleIds : GetRawData(i, h)
    \/ \E i \in Callers : MapKeys(i)
    \/ \E i \in Callers, h \in HandleIds : MapGet(i, h)
    \/ \E i \in Callers : ReadCursor(i)
    \/ \E i \in Callers, h \in HandleIds : GetUnfiltered(i, GetUnfilteredName(kind), h)
    \/ \E i \in Callers, name \in WriteNames(kind) : WriteAttempt(i, name, "h1")
    \/ Return

Spec == Init /\ [][Next]_vars

(* ---------------------------- cursor protocol -------------------------- *)
\* proxy.get_<kind>_cursor()
GetCursor(i) ==
    /\ Idle
    /\ cursor = NoCursor
    /\ cursor' = get_cursor(i)
    /\ UNCHANGED <<kind, table, isopen, proxies, last, bookmarks>>

\* with cursor: ... is entered
Enter ==
    /\ Idle
    /\ cursor.scope = "new"
    /\ cursor' = ProxyCursor_enter(cursor)
    /\ UNCHANGED <<kind, table, isopen, proxies, last, bookmarks>>

\* for ... in cursor: a fresh iteration starts
Iter ==
    /\ Idle
    /\ cursor.scope \in {"new", "entered", "exited"}
    /\ cursor' = ProxyCursor_iter(cursor)
    /\ cursor' # cursor
    /\ UNCHANGED <<kind, table, isopen, proxies, last, bookmarks>>

\* the caller pulls the next pair
Pull ==
    /\ Idle
    /\ cursor.gen \in {"created", "suspended"}
    /\ cursor' = ProxyCursor_next(cursor)
    /\ UNCHANGED <<kind, table, isopen, proxies, last, bookmarks>>

\* the with statement is left: by reaching its end or a break (exc false)
\* or by an exception raised in the body (exc true)
Exit(exc) ==
    /\ Idle
    /\ cursor.scope = "entered"
    /\ cursor.gen = "raised" => exc
    /\ cursor' = ProxyCursor_exit(cursor, exc)
    /\ UNCHANGED <<kind, table, isopen, proxies, last, bookmarks>>

\* the caller drops the cursor and its generator
Discard ==
    /\ Idle
    /\ cursor # NoCursor
    /\ cursor' = NoCursor
    /\ UNCHANGED <<kind, table, isopen, proxies, last, bookmarks>>

CursorNext ==
    \/ \E pred \in Predicates : Len(proxies) < CursorDepth /\ Construct(pred)
    \/ \E name \in WriteNames(kind), h \in HandleIds, p \in BOOLEAN :
           Write(name, h, p)
    \/ Load
    \/ \E i \in Callers : Close(i)
    \/ Return
    \/ \E i \in Callers : GetCursor(i)
    \/ Enter
    \/ Iter
    \/ Pull
    \/ \E exc \in BOOLEAN : Exit(exc)
    \/ Discard

CursorSpec == Init /\ [][CursorNext]_vars

(* ---------------------------- bookmark lists -------------------------- *)
\* the base store's bookmark list is edited in place: append
AddBookmark(h) ==
    /\ kind \in BookmarkKinds
    /\ h \notin Range(bookmarks)
    /\ bookmarks' = Append(bookmarks, h)
    /\ UNCHANGED <<kind, table, isopen, proxies, last, cursor>>

\* the base store's bookmark list is edited in place: remove
RemoveBookmark(h) ==
    /\ kind \in BookmarkKinds
    /\ h \in Range(bookmarks)
    /\ bookmarks' = SelectSeq(bookmarks, LAMBDA x : x # h)
    /\ UNCHANGED <<kind, table, isopen, proxies, last, cursor>>

\* proxy.get_<kind>_bookmarks(): the list object is returned; `seen` is
\* what it held when it was returned
GetBookmarks(i) ==
    /\ Idle
    /\ kind \in BookmarkKinds
    /\ last' = [op |-> "get_bookmarks", proxy |-> i, arg |-> None,
                result |-> get_bookmarks(i),
                seen |-> Contents(get_bookmarks(i))]
    /\ UNCHANGED <<kind, table, isopen, proxies, cursor, bookmarks>>

BookmarkNext ==
    \/ \E pred \in Predicates : Construct(pred)
    \/ \E h \in HandleIds : AddBookmark(h)
    \/ \E h \in HandleIds : RemoveBookmark(h)
    \/ \E i \in Proxies : GetBookmarks(i)
    \/ Return

BookmarkSpec == Init /\ [][BookmarkNext]_vars

(* ---------------------------- registry and views ----------------------- *)
ViewNext ==
    \/ \E pred \in Predicates : Construct(pred)
    \/ \E name \in WriteNames(kind), h \in HandleIds, p \in BOOLEAN :
           Write(name, h, p)
    \/ Load
    \/ \E i \in Proxies : Close(i)
    \/ \E i \in Callers, t \in TableArgs, f \in FuncArgs : GetTableFunc(i, t, f)
    \/ \E i \in Callers, name \in OtherNames : GetAttr(i, name)
    \/ \E i \in Callers : MapKeys(i)
    \/ \E i \in Callers : IterObjects(i)
    \/ \E i \in Callers, order_by \in OrderBys : IterObjectsOrdered(i, order_by)
    \/ \E i \in Callers, h \in HandleIds : MapGet(i, h)
    \/ Return

ViewSpec == Init /\ [][ViewNext]_vars

(* ---------------------------- initial and default person --------------- *)
\* what the base store can answer when asked for its initial or its default
\* person: a Person it holds, or None
BasePersons == Range(TableOf("person")) \cup {None}

\* proxy.find_initial_person()
FindInitialPerson(i, initial) ==
    /\ Returned("find_initial_person", i, initial, find_initial_person(i, initial))
    /\ UNCHANGED <<kind, cursor, bookmarks, table, isopen, proxies>>

\* proxy.get_default_person()
GetDefaultPerson(i, default) ==
    /\ Returned("get_default_person", i, default, get_default_person(i, default))
    /\ UNCHANGED <<kind, cursor, bookmarks, table, isopen, proxies>>

\* proxy.get_default_handle()
GetDefaultHandle(i, default) ==
    /\ Returned("get_default_handle", i, default, get_default_handle(i, default))
    /\ UNCHANGED <<kind, cursor, bookmarks, table, isopen, proxies>>

PersonNext ==
    \/ \E pred \in Predicates : Construct(pred)
    \/ \E name \in WriteNames(kind), h \in HandleIds, p \in BOOLEAN :
           Write(name, h, p)
    \/ Load
    \/ \E i \in Proxies : Close(i)
    \/ \E i \in Callers, h \in HandleIds : HasHandle(i, h)
    \/ \E i \in Callers, initial \in BasePersons : FindInitialPerson(i, initial)
    \/ \E i \in Callers, default \in BasePersons : GetDefaultPerson(i, default)
    \/ \E i \in Callers, default \in BasePersons : GetDefaultHandle(i, default)
    \/ Return

PersonSpec == Init /\ [][PersonNext]_vars

(* ---------------------------- deep stacks ------------------------------ *)
\* ProxyDbBase.__init__(db) on the newest object, up to StackDepth proxies
Stack(pred) ==
    /\ Idle
    /\ Len(proxies) < StackDepth
    /\ LET db == Len(proxies)
           new == [db |-> db, basedb |-> FindBase(proxies, db),
                   bookmarks |-> db_bookmarks(proxies, db),
                   include |-> pred, attrs |-> {}]
       IN proxies' = Append(proxies, new)
    /\ last' = NoCall
    /\ UNCHANGED <<kind, cursor, bookmarks, table, isopen>>

StackNext ==
    \/ \E pred \in Predicates : Stack(pred)
    \/ Load
    \/ \E i \in Proxies : Close(i)
    \/ \E i \in Proxies : IsOpen(i)
    \/ \E i \in Callers, h \in HandleIds : GetUnfiltered(i, GetUnfilteredName(kind), h)
    \/ Return

StackSpec == Init /\ [][StackNext]_vars

(* ---------------------------- properties ------------------------------- *)
\* What a proxy answers depends on the store and the stack only, and every
\* state in which a call has returned has the state the call was made in
\* (Idle, same store and stack) before it: statements about all proxies
\* and all handles are therefore made of the Idle states, statements about
\* a returned value of the states that hold it in `last`.
StrHandles == {Str(h) : h \in HandleIds}

\* the inclusion predicate of proxy i holds of a handle ("include
\* everything" when the proxy installs none)
Passes(i, k, handle) == proxies[i].include = NoPred \/ Include(i, k, handle)

\* what the store proxy i directly wraps answers
WrappedIterHandles(i, k) ==
    IF proxies[i].db = 0 THEN base_iter_handles(k)
    ELSE iter_handles(proxies[i].db, k)
WrappedIterObjects(i, k) ==
    IF proxies[i].db = 0 THEN base_iter_objects(k)
    ELSE iter_objects(proxies[i].db, k)
WrappedFromHandle(i, k, handle) ==
    IF proxies[i].db = 0 THEN base_get_from_handle(k, handle)
    ELSE get_from_handle(proxies[i].db, k, handle)
WrappedFromGid(i, k, val) ==
    IF proxies[i].db = 0 THEN base_get_from_gid(k, val)
    ELSE get_from_gid(proxies[i].db, k, val)
WrappedIsOpen(i) ==
    IF proxies[i].db = 0 THEN isopen ELSE is_open(proxies[i].db)

\* the handles of the wrapped store that proxy i's predicate lets through
Included(i, k) == {h \in Range(WrappedIterHandles(i, k)) : Passes(i, k, h)}

\* C1: for every kind K and handle h, in every state of the store,
\* has_K_handle(h) is true exactly when get_K_from_handle(h) returns an
\* entity, and exactly when h is a member of get_K_handles().
C1_HasIffGetIffListed ==
    Idle => \A i \in Proxies, k \in {kind}, h \in StrHandles :
        /\ has_handle(i, k, h) <=> (get_from_handle(i, k, h) # None)
        /\ has_handle(i, k, h) <=> (h \in Range(get_handles(i, k, FALSE)))

\* C2: when P2 wraps P1 which wraps the base store, the handles visible
\* through P2 by get_K_handles, iter_K_handles, has_K_handle and
\* get_K_from_handle are exactly the base store's handles that satisfy both
\* P1's and P2's inclusion predicate.
C2_Composition ==
    Idle => \A p2 \in Proxies, k \in {kind} :
        (proxies[p2].db # 0 /\ proxies[proxies[p2].db].db = 0) =>
            LET p1 == proxies[p2].db
                both == {h \in Range(base_iter_handles(k)) :
                            Passes(p1, k, h) /\ Passes(p2, k, h)}
            IN /\ Range(get_handles(p2, k, FALSE)) = both
               /\ Range(iter_handles(p2, k)) = both
               /\ {h \in StrHandles : has_handle(p2, k, h)} = both
               /\ {h \in StrHandles : get_from_handle(p2, k, h) # None} = both

\* C3: for every kind, get_number_of_Ks() equals the length of
\* get_K_handles() in the same store state, whatever changes the store went
\* through before the call: the count returned is the current one.
C3_CountIsCurrentLength ==
    /\ Idle => \A i \in Proxies, k \in {kind} :
           get_number_of(i, k) = Len(get_handles(i, k, FALSE))
    /\ last.op = "get_number_of" =>
           last.result = Len(get_handles(last.proxy, kind, FALSE))

\* C3 witness: after the store grew to two entities, the count returned is
\* the one entity the proxy still shows
C3_Witness ==
    /\ last.op = "get_number_of"
    /\ Len(table) = 2
    /\ last.result = 1

\* C4: for every proxy of a stack, get_unfiltered_K(h) returns what the
\* base store's get_K_from_handle(h) returns, on the first request and on
\* the later, cached ones, whether or not a predicate excludes h.
C4_UnfilteredReadsBase ==
    /\ Idle => \A i \in Proxies, k \in {kind}, h \in StrHandles :
           LET attr == getattr(i, GetUnfilteredName(k))
           IN /\ attr.t = "method"
              /\ Invoke(attr, h) = base_get_from_handle(k, h)
    /\ Idle => \A i \in Proxies : \A a \in proxies[i].attrs :
           a[2] = Method(0, <<"get", a[1][3], "from", "handle">>)
    /\ last.op = "get_unfiltered" =>
           last.result = base_get_from_handle(kind, last.arg)

\* C4 witness: a cached request on the outer proxy of a stack of two
\* returns an entity that the filtered accessor hides
C4_Witness ==
    /\ last.op = "get_unfiltered"
    /\ last.cached
    /\ last.proxy = 2
    /\ last.result # None
    /\ ~has_handle(last.proxy, kind, last.arg)

\* C5: looking up on the proxy a write operation of the writable-store
\* contract that the proxy does not define fails with AttributeError; the
\* operation is not forwarded and the store is left as it was.
C5_WritesRejected ==
    [][/\ Idle => \A i \in Proxies, name \in WriteNames(kind) :
              getattr(i, name) = AttributeError
       /\ (last.op = "none" /\ last'.op = "write") =>
              /\ last'.result = AttributeError
              /\ table' = table
              /\ isopen' = isopen]_vars

\* C5 witness: add_K was requested for a handle the store does not hold,
\* the lookup raised, and the store still does not hold it
C5_Witness ==
    /\ last.op = "write"
    /\ last.arg[1] = "add"
    /\ last.result = AttributeError
    /\ base_get_from_handle(kind, Str("h1")) = None
    /\ isopen

\* C6: get_K_from_handle, get_K_from_gid and get_tag_from_name return the
\* wrapped store's entity when it exists and its handle passes include_K,
\* and None, never an exception, when it is absent or excluded.
C6_LookupFiltered ==
    /\ Idle => \A i \in Proxies, k \in {kind}, h \in StrHandles :
           LET w == WrappedFromHandle(i, k, h)
           IN get_from_handle(i, k, h) =
                  IF w # None /\ Passes(i, k, w.handle) THEN w ELSE None
    /\ Idle => \A i \in Proxies, k \in {kind}, g \in Gids :
           LET w == WrappedFromGid(i, k, g)
           IN get_from_gid(i, k, g) =
                  IF w # None /\ Passes(i, k, w.handle) THEN w ELSE None
    /\ last.op \in {"get_from_handle", "get_from_gid"} =>
           last.result.t \in {"None", "obj"}

\* C6 witness: a lookup by external id returned None for an entity the
\* wrapped store holds and the predicate excludes
C6_Witness ==
    /\ last.op = "get_from_gid"
    /\ last.result = None
    /\ WrappedFromGid(last.proxy, kind, last.arg) # None

\* C7: get_raw_K_data(h) is the serialization of the entity
\* get_K_from_handle(h) returns now, and raises, instead of returning a
\* null-valued serialization, when include_K excludes h.
C7_RawDataOfFiltered ==
    /\ Idle => \A i \in Proxies, k \in {kind}, h \in StrHandles :
           LET w == WrappedFromHandle(i, k, h)
               raw == get_raw_data(i, k, h)
           IN /\ (w # None /\ Passes(i, k, h)) =>
                     /\ raw = to_struct(get_from_handle(i, k, h))
                     /\ raw.handle = h.v
                     /\ raw.private = w.private
              /\ (w # None /\ ~Passes(i, k, h)) => raw = AttributeError
    /\ last.op = "get_raw_data" =>
           \/ last.result = AttributeError
           \/ /\ last.result.t = "struct"
              /\ get_from_handle(last.proxy, kind, last.arg) # None
              /\ last.result = to_struct(get_from_handle(last.proxy, kind, last.arg))

\* C7 witness: raw data was requested for a stored, excluded handle and
\* the request raised
C7_Witness ==
    /\ last.op = "get_raw_data"
    /\ last.result = AttributeError
    /\ WrappedFromHandle(last.proxy, kind, last.arg) # None
    /\ ~Passes(last.proxy, kind, last.arg)

\* the handles of a handle list, decoded where the list holds bytes
Decoded(handles) ==
    {IF x.t = "bytes" THEN py_str(x) ELSE x : x \in Range(handles)}

C9_DefaultIncludesAll ==
    Idle => \A i \in Proxies, k \in {kind} :
        proxies[i].include = NoPred =>
            /\ iter_handles(i, k) = WrappedIterHandles(i, k)
            /\ Range(get_handles(i, k, FALSE)) = Range(WrappedIterHandles(i, k))
            /\ iter_objects(i, k) = WrappedIterObjects(i, k)
            /\ \A h \in StrHandles :
                   /\ has_handle(i, k, h) <=> (WrappedFromHandle(i, k, h) # None)
                   /\ get_from_handle(i, k, h) = WrappedFromHandle(i, k, h)

\* C10: get_K_handles() is the empty list whenever the wrapped store
\* reports that it is not open, whatever the store holds.
C10_EmptyWhenNotOpen ==
    /\ Idle => \A i \in Proxies, k \in {kind}, s \in BOOLEAN :
           ~WrappedIsOpen(i) => get_handles(i, k, s) = <<>>
    /\ (last.op = "get_handles" /\ ~WrappedIsOpen(last.proxy)) =>
           last.result = <<>>

\* C10 witness: the list was requested of a closed store whose handles the
\* proxy would otherwise show, and came back empty
C10_Witness ==
    /\ last.op = "get_handles"
    /\ ~isopen
    /\ Range(iter_handles(last.proxy, kind)) # {}
    /\ last.result = <<>>

\* position of x in a list without repetitions
Pos(s, x) == CHOOSE n \in 1 .. Len(s) : s[n] = x

\* r lists some of the elements of b, each once, in the order b has them
InOrderOf(r, b) ==
    /\ \A p \in 1 .. Len(r) : \E n \in 1 .. Len(b) : b[n] = r[p]
    /\ \A p, q \in 1 .. Len(r) : p < q => Pos(b, r[p]) < Pos(b, r[q])

PersonOrFamily == {kind} \cap {"person", "family"}

\* C11 (as stated): for Person and Family, get_K_handles(sort) is the base
\* store's get_K_handles(sort) list restricted to the proxy's own filtered
\* handle set: the base list's relative order, no handle outside the
\* filtered set, no filtered handle missing.
C11_BaseListRestricted ==
    /\ Idle => \A i \in Proxies, k \in PersonOrFamily, s \in BOOLEAN :
           /\ InOrderOf(get_handles(i, k, s), base_get_handles(k, s))
           /\ Decoded(get_handles(i, k, s)) = Range(iter_handles(i, k))
    /\ (last.op = "get_handles" /\ PersonOrFamily # {}) =>
           /\ InOrderOf(last.result, base_get_handles(kind, last.arg))
           /\ Decoded(last.result) = Range(iter_handles(last.proxy, kind))

\* C11 (amended): while the wrapped store reports open, the Person and
\* Family list is the base store's list restricted to the proxy's filtered
\* handle set, in the base list's order; while it does not, the list is
\* empty.
C11_BaseListRestrictedWhileOpen ==
    /\ Idle => \A i \in Proxies, k \in PersonOrFamily, s \in BOOLEAN :
           /\ InOrderOf(get_handles(i, k, s), base_get_handles(k, s))
           /\ Decoded(get_handles(i, k, s)) =
                  IF WrappedIsOpen(i) THEN Range(iter_handles(i, k)) ELSE {}
    /\ (last.op = "get_handles" /\ PersonOrFamily # {}) =>
           /\ InOrderOf(last.result, base_get_handles(kind, last.arg))
           /\ Decoded(last.result) =
                  IF WrappedIsOpen(last.proxy)
                  THEN Range(iter_handles(last.proxy, kind)) ELSE {}

\* C11 witness: the sorted Person list was requested of a store that
\* enumerates h2 before h1, through a proxy that shows both, and came back
\* in the base store's sorted order
C11_Witness ==
    /\ last.op = "get_handles"
    /\ kind = "person"
    /\ last.arg = TRUE
    /\ base_iter_handles(kind) = <<Str("h2"), Str("h1")>>
    /\ iter_handles(last.proxy, kind) = <<Str("h2"), Str("h1")>>
    /\ last.result = <<Bytes("h1"), Bytes("h2")>>

\* C12: a cursor whose scope was entered and then left, early after a
\* partial consumption or through an exception raised in the body, has
\* released its underlying resource exactly once.
C12_ReleasedExactlyOnce ==
    cursor.scope = "exited" => cursor.released = 1

\* C13: close() on any proxy of a stack closes the innermost base store,
\* and is_open() of every proxy of the stack is, then and in every other
\* state, what the base store reports: a proxy has no open/closed state of
\* its own.
C13_CloseClosesBase ==
    [][/\ Idle => \A i \in Proxies : is_open(i) = isopen
       /\ (last.op = "none" /\ last'.op = "close") =>
              /\ isopen' = FALSE
              /\ \A i \in Proxies : is_open(i)' = FALSE
       /\ last'.op = "is_open" => last'.result = isopen]_vars

\* C13 witness: with the base store closed by close() on a proxy of a
\* stack of two, is_open() was asked of the outer proxy and answered false
C13_Witness ==
    /\ last.op = "is_open"
    /\ last.proxy = 2
    /\ last.result = FALSE
    /\ ~isopen
    /\ proxies[2].db = 1

\* the contents of the bookmark list of the store proxy i directly wraps
WrappedBookmarks(i) ==
    IF proxies[i].db = 0 THEN bookmarks
    ELSE Contents(get_bookmarks(proxies[i].db))

KeyOf(k) == CHOOSE key \in Range(TableKeys) : KindOf(key) = k

\* names that are no key of __tables
UnknownTables == Kinds \cup {"People", ""}

\* the functions of descriptor d other than the id lookup are the proxy
\* i's own filtered operations for kind k
BoundToProxy(d, i, k) ==
    /\ d.handle_func = Method(i, <<"get", k, "from", "handle">>)
    /\ \A h \in StrHandles :
           Invoke(d.handle_func, h) = get_from_handle(i, k, h)
    /\ d.cursor_func = Method(i, <<"get", k, "cursor">>)
    /\ d.handles_func = Method(i, <<"get", k, "handles">>)
    /\ d.iter_func = Method(i, <<"iter", k>>)
    /\ d.count_func = Method(i, <<"get", "number", "of", k>>)

\* C15 (as stated): get_table_func() returns the recognized kind names;
\* with a recognized kind it returns the kind's descriptor, whose handle
\* lookup, id lookup, cursor factory, handle enumerator, iterator and
\* counter are all the proxy's own filtered operations; with an
\* unrecognized name it fails and returns no descriptor.
C15_TableRegistry ==
    /\ Idle => \A i \in Proxies :
           /\ \A n \in Range(TableKeys) \cup UnknownTables :
                  n \in Range(get_table_func(i, None, None))
                      <=> get_table_func(i, Str(n), None) # KeyError
           /\ \A k \in Kinds :
                  LET d == get_table_func(i, Str(KeyOf(k)), None)
                  IN /\ d # KeyError
                     /\ BoundToProxy(d, i, k)
                     /\ d.gid_func = Method(i, <<"get", k, "from", "gid">>)
           /\ \A n \in UnknownTables, f \in FuncArgs :
                  get_table_func(i, Str(n), f) = KeyError
    /\ (last.op = "get_table_func" /\ last.arg[1] # None /\ last.arg[2] = None) =>
           \/ last.arg[1].v \in UnknownTables /\ last.result = KeyError
           \/ /\ last.arg[1].v = KeyOf(kind)
              /\ BoundToProxy(last.result, last.proxy, kind)
              /\ last.result.gid_func =
                     Method(last.proxy, <<"get", kind, "from", "gid">>)

\* C15 (amended): as stated, except that the descriptor of Tag has no id
\* lookup: its gid_func is None.
C15_TableRegistryTagWithoutId ==
    /\ Idle => \A i \in Proxies :
           /\ \A n \in Range(TableKeys) \cup UnknownTables :
                  n \in Range(get_table_func(i, None, None))
                      <=> get_table_func(i, Str(n), None) # KeyError
           /\ \A k \in Kinds :
                  LET d == get_table_func(i, Str(KeyOf(k)), None)
                  IN /\ d # KeyError
                     /\ BoundToProxy(d, i, k)
                     /\ d.gid_func =
                            IF k = "tag" THEN None
                            ELSE Method(i, <<"get", k, "from", "gid">>)
           /\ \A n \in UnknownTables, f \in FuncArgs :
                  get_table_func(i, Str(n), f) = KeyError
    /\ (last.op = "get_table_func" /\ last.arg[1] # None /\ last.arg[2] = None) =>
           \/ last.arg[1].v \in UnknownTables /\ last.result = KeyError
           \/ /\ last.arg[1].v = KeyOf(kind)
              /\ BoundToProxy(last.result, last.proxy, kind)
              /\ last.result.gid_func =
                     IF kind = "tag" THEN None
                     ELSE Method(last.proxy, <<"get", kind, "from", "gid">>)

\* C15 witness: the outer proxy of a stack of two returned the Person
\* descriptor, whose handle lookup hides a person the wrapped proxy shows
C15_Witness ==
    /\ last.op = "get_table_func"
    /\ last.arg = <<Str("Person"), None>>
    /\ last.proxy = 2
    /\ last.result.handle_func.self = 2
    /\ Invoke(last.result.handle_func, Str("h1")) = None
    /\ get_from_handle(1, kind, Str("h1")) # None

\* the encoded form of a handle list: each handle as a bytes object
Encoded(handles) ==
    Map(LAMBDA x : IF x.t = "bytes" THEN x ELSE Bytes(x.v), handles)

\* C16: for every kind with a <kind>_map on the proxy, keys() is the
\* encoded form of get_K_handles() and m[handle] is get_raw_K_data(handle);
\* no map view reached through the proxy, its own or a forwarded one, shows
\* a handle or a record that the proxy's predicate excludes.
C16_MapViewsFiltered ==
    /\ Idle => \A i \in Proxies :
           LET m == getattr(i, <<kind, "map">>) IN
           /\ kind \in MapKinds =>
                  /\ m = Attr(i, <<kind, "map">>)
                  /\ keys(m) = PyList(Encoded(get_handles(i, kind, FALSE)))
                  /\ \A h \in StrHandles :
                         getitem(m, h) = get_raw_data(i, kind, h)
           /\ m.t = "attr" =>
                  /\ keys(m).t = "list" =>
                         \A key \in Range(keys(m).v) :
                             Passes(i, kind, py_str(key))
                  /\ \A h \in StrHandles :
                         getitem(m, h).t = "struct" => Passes(i, kind, h)
    /\ last.op = "map_keys" =>
           /\ last.result.t = "list"
           /\ \A key \in Range(last.result.v) :
                  Passes(last.proxy, kind, py_str(key))
    /\ (last.op = "map_getitem" /\ last.result.t = "struct") =>
           Passes(last.proxy, kind, last.arg)

\* C17: an iteration of a kind's cursor enumerates when it starts: the
\* list it walks is what get_K_handles() returns at its first pull, it
\* yields one (encoded handle, raw record) pair per handle of that list, in
\* the list's order, and no handle of the list fails to be encoded.
C17_CursorReenumerates ==
    [][/\ (cursor.gen = "created"
               /\ cursor'.gen \in {"suspended", "done", "raised"}) =>
              cursor'.handles = get_handles(cursor.owner, kind, FALSE)
       /\ cursor'.gen = "suspended" =>
              /\ cursor'.at = Len(cursor'.yielded)
              /\ \A n \in 1 .. cursor'.at :
                     cursor'.yielded[n][1] = Encoded(cursor'.handles)[n]
              /\ cursor'.at = cursor.at + 1 =>
                     cursor'.yielded[cursor'.at][2] =
                         get_raw_data(cursor.owner, kind,
                                      cursor'.handles[cursor'.at])
       /\ cursor'.gen = "done" =>
              /\ cursor'.at = Len(cursor'.handles)
              /\ Len(cursor'.yielded) = Len(cursor'.handles)
       /\ cursor'.error # TypeError]_vars

\* rank of an external id in the sort order
GidRank(g) == IF g = "g1" THEN 1 ELSE 2

\* r is sorted as order_by asks
SortedBy(r, order_by) ==
    \A p, q \in 1 .. Len(r) :
        p < q => IF order_by.v[1][2] = "ASC"
                 THEN GidRank(r[p].gid) <= GidRank(r[q].gid)
                 ELSE GidRank(r[p].gid) >= GidRank(r[q].gid)

\* r holds the entities of the wrapped store whose handle passes proxy
\* i's predicate, each once
FilteredObjects(r, i, k) ==
    /\ Range(r) = {o \in Range(WrappedIterObjects(i, k)) : Passes(i, k, o.handle)}
    /\ Cardinality(Range(r)) = Len(r)
    /\ {o.handle : o \in Range(r)} = Range(iter_handles(i, k))

\* C18: iter_Ks() yields exactly the wrapped store's entities whose handle
\* passes include_K, the handle set of iter_K_handles(); with order_by the
\* result is that same set, each entity once, in sorted order.
C18_IterObjectsFiltered ==
    /\ Idle => \A i \in Proxies :
           /\ FilteredObjects(iter_objects(i, kind), i, kind)
           /\ \A ob \in OrderBys :
                  /\ FilteredObjects(iter_objects_ordered(i, kind, ob), i, kind)
                  /\ ob.v # <<>> =>
                         SortedBy(iter_objects_ordered(i, kind, ob), ob)
    /\ last.op = "iter_objects" =>
           /\ FilteredObjects(last.result, last.proxy, kind)
           /\ (last.arg # None /\ last.arg.v # <<>>) =>
                  SortedBy(last.result, last.arg)

\* C18 witness: two entities that the wrapped store enumerates h2 first
\* and the proxy does not hide were asked for in ascending order of id and
\* came back h1 first
C18_Witness ==
    /\ last.op = "iter_objects"
    /\ last.arg # None
    /\ last.arg.v = <<<<"gid", "ASC">>>>
    /\ Len(WrappedIterObjects(last.proxy, kind)) = 2
    /\ WrappedIterObjects(last.proxy, kind)[1].gid = "g2"
    /\ Len(last.result) = 2
    /\ last.result[1].gid = "g1"

\* C19 (as stated): a name the proxy does not define, that does not begin
\* with get_unfiltered and is no write operation, resolves to the attribute
\* of that name of the directly wrapped store, unchanged.
C19_OthersForwarded ==
    /\ Idle => \A i \in Proxies, name \in OtherNames :
           getattr(i, name) = getattr(proxies[i].db, name)
    /\ last.op = "getattr" =>
           last.result = getattr(proxies[last.proxy].db, last.arg)

\* C19 (amended): as stated, for every such name but readonly; readonly
\* resolves to True whatever the wrapped store's readonly is.
C19_OthersForwardedButReadonly ==
    /\ Idle => \A i \in Proxies, name \in OtherNames :
           getattr(i, name) =
               IF name = ReadonlyName THEN [t |-> "bool", v |-> TRUE]
               ELSE getattr(proxies[i].db, name)
    /\ last.op = "getattr" =>
           last.result =
               IF last.arg = ReadonlyName THEN [t |-> "bool", v |-> TRUE]
               ELSE getattr(proxies[last.proxy].db, last.arg)

\* C19 witness: get_summary asked of the outer proxy of a stack of two
\* resolved, through the wrapped proxy, to the base store's method
C19_Witness ==
    /\ last.op = "getattr"
    /\ last.arg = <<"get", "summary">>
    /\ last.proxy = 2
    /\ proxies[2].db = 1
    /\ last.result = Method(0, <<"get", "summary">>)

\* the calls that read: every call of the proxy but close() and the
\* attempts to write
ReadOps == {"is_open", "get_from_handle", "get_from_gid", "has_handle",
            "get_handles", "iter_handles", "iter_objects", "get_number_of",
            "get_raw_data", "get_unfiltered", "map_keys", "map_getitem",
            "list_cursor", "getattr", "get_table_func", "get_bookmarks"}

\* C20: a read operation of a proxy leaves the store's contents and its
\* open/closed status as they were; after its construction a proxy changes
\* in nothing but the get_unfiltered accessors it has cached, and these are
\* added by get_unfiltered lookups only.
C20_ReadsChangeNothing ==
    [][/\ (last.op = "none" /\ last'.op \in ReadOps) =>
              /\ table' = table
              /\ isopen' = isopen
              /\ bookmarks' = bookmarks
              /\ Len(proxies') = Len(proxies)
       /\ \A i \in Proxies :
              /\ proxies'[i] = [proxies[i] EXCEPT !.attrs = proxies'[i].attrs]
              /\ proxies[i].attrs \subseteq proxies'[i].attrs
              /\ \A a \in proxies'[i].attrs \ proxies[i].attrs :
                     /\ SubSeq(a[1], 1, 2) = <<"get", "unfiltered">>
                     /\ last'.op = "get_unfiltered"
                     /\ last'.proxy = i]_vars

\* C20 witness: a first get_unfiltered lookup on a proxy over a store that
\* holds an entity has returned it and left its accessor cached
C20_Witness ==
    /\ last.op = "get_unfiltered"
    /\ ~last.cached
    /\ last.result # None
    /\ proxies[last.proxy].attrs # {}
    /\ table # <<>>

\* C21: in a stack of proxies of any depth every proxy's basedb is the one
\* innermost store that is no proxy, and its db is the store it directly
\* wraps; both are set when the proxy is constructed and no later step
\* changes them.
C21_BasedbIsInnermost ==
    [][/\ \A i \in 1 .. Len(proxies') :
              /\ proxies'[i].basedb = 0
              /\ proxies'[i].db = i - 1
       /\ \A i \in Proxies :
              /\ i <= Len(proxies')
              /\ proxies'[i].db = proxies[i].db
              /\ proxies'[i].basedb = proxies[i].basedb]_vars

\* C21 witness: three proxies are stacked; the outermost wraps the second
\* and has the base store as basedb, after the first has cached an accessor
\* and the base store has been closed
C21_Witness ==
    /\ Len(proxies) = 3
    /\ proxies[3].db = 2
    /\ proxies[3].basedb = 0
    /\ proxies[1].attrs # {}
    /\ ~isopen

\* the base store holds an entity under the handle now and the predicate of
\* proxy i and of every proxy below it lets the handle through
RECURSIVE VisibleThrough(_, _, _)
VisibleThrough(i, k, handle) ==
    IF i = 0 THEN base_get_from_handle(k, handle) # None
    ELSE Passes(i, k, handle) /\ VisibleThrough(proxies[i].db, k, handle)

\* a step in which the caller pulls from the generator of the cursor
PullStep ==
    /\ cursor.gen \in {"created", "suspended"}
    /\ cursor'.gen \in {"suspended", "done", "raised"}
    /\ cursor'.scope = cursor.scope
    /\ cursor' # cursor

\* C22: when a pull of a suspended iteration comes to a handle that was
\* enumerated at the start and that the store, changed since, no longer
\* holds or the proxy now excludes, the pull raises an error and yields
\* nothing; every pair a pull yields is the encoded handle and the raw
\* record of an entity that is visible through the proxy at that pull.
C22_NoRecordOfVanishedHandle ==
    [][PullStep =>
           LET n == cursor.at + 1
               i == cursor.owner
           IN /\ ( /\ cursor.gen = "suspended"
                   /\ n <= Len(cursor.handles)
                   /\ ~VisibleThrough(i, kind, cursor.handles[n]) ) =>
                      /\ cursor'.gen = "raised"
                      /\ cursor'.error = AttributeError
                      /\ cursor'.yielded = cursor.yielded
                      /\ cursor'.at = cursor.at
              /\ cursor'.yielded # cursor.yielded =>
                      LET handle == cursor'.handles[n]
                          obj == base_get_from_handle(kind, handle)
                      IN /\ VisibleThrough(i, kind, handle)
                         /\ cursor'.yielded =
                                Append(cursor.yielded,
                                       <<Bytes(handle.v), to_struct(obj)>>)]_vars

\* C22 witness: an iteration over two handles yielded the first pair, the
\* second entity was then made private in the store, which still holds it,
\* and the next pull raised instead of yielding
C22_Witness ==
    /\ cursor.gen = "raised"
    /\ cursor.error = AttributeError
    /\ Len(cursor.handles) = 2
    /\ Len(cursor.yielded) = 1
    /\ base_get_from_handle(kind, cursor.handles[2]) # None
    /\ ~VisibleThrough(cursor.owner, kind, cursor.handles[2])

\* C23: find_initial_person() returns the base store's initial person
\* exactly when there is one and the predicate of the proxy and of every
\* proxy below it lets its handle through, which is when has_person_handle
\* is true of it; otherwise it returns None.
C23_InitialPersonIfVisible ==
    /\ Idle => \A i \in Proxies : \A initial \in BasePersons :
           /\ find_initial_person(i, initial) =
                  IF initial # None /\ VisibleThrough(i, "person", initial.handle)
                  THEN initial ELSE None
           /\ initial # None =>
                  (VisibleThrough(i, "person", initial.handle)
                       <=> has_handle(i, "person", initial.handle))
    /\ last.op = "find_initial_person" =>
           last.result =
               IF last.arg # None
                  /\ VisibleThrough(last.proxy, "person", last.arg.handle)
               THEN last.arg ELSE None

\* C23 witness: the base store has an initial person that the proxy wrapped
\* by the caller's proxy excludes, and find_initial_person() returned None
C23_Witness ==
    /\ last.op = "find_initial_person"
    /\ last.arg # None
    /\ last.result = None
    /\ last.proxy = 2
    /\ Passes(2, "person", last.arg.handle)
    /\ ~Passes(1, "person", last.arg.handle)

\* C24: get_default_person() and get_default_handle() return a person or a
\* handle only when has_person_handle is true of its handle, that is when
\* the proxy's predicates let it through.
C24_DefaultIsVisible ==
    /\ last.op = "get_default_person" =>
           (last.result # None =>
                /\ has_handle(last.proxy, "person", last.result.handle)
                /\ VisibleThrough(last.proxy, "person", last.result.handle))
    /\ last.op = "get_default_handle" =>
           (last.result # None =>
                /\ has_handle(last.proxy, "person", last.result)
                /\ VisibleThrough(last.proxy, "person", last.result))

=============================================================================
